---- MODULE Spec2Model ----
(***************************************************************************)
(* DJ playlist optimizer (src/app.py): the Camelot key distance, the      *)
(* pairwise song distance, the nearest-neighbour + 2-opt tour builder      *)
(* make_End_list, the incremental inserter add_song_after, and the web     *)
(* layer's shared master_song_list.                                        *)
(*                                                                         *)
(* Encoding.  A Python optional value is a sequence of length 0 (None) or  *)
(* 1 (the value).  A Python string is a sequence of one-character strings, *)
(* so that filtering and parsing are computed character by character.      *)
(* Tour indices are the Python ones (0-based); TLA+ sequences are 1-based, *)
(* so Python's tour[k] is written tour[k + 1] (operator At).               *)
(* Distances are floats in the code (4.0 * ...); every value that occurs   *)
(* is integral, and is modelled as an integer.                             *)
(* CHOOSE r \in {e(v) : v \in {x}} : TRUE is e(x) with x evaluated once, as  *)
(* Python evaluates an argument or assigns a local once.                   *)
(***************************************************************************)
EXTENDS Integers, Sequences, FiniteSets

VARIABLES
    \* distance(SONG1, SONG2) / key_distance call
    SONG1, SONG2, key_result, dist_result, dpc,
    \* make_End_list(Song_List)
    Song_List, unvisited, current, tour, improved, i, j, result, pc,
    \* add_song_after(optimized_list, new_song)
    optimized_list, new_song, best_position, min_added_distance, ins_i,
    inserted, ins_pc,
    \* web layer: the module-level list and the request threads
    master_song_list, th

distVars == <<SONG1, SONG2, key_result, dist_result, dpc>>
tourVars == <<Song_List, unvisited, current, tour, improved, i, j, result, pc>>
insVars == <<optimized_list, new_song, best_position, min_added_distance, ins_i,
             inserted, ins_pc>>
webVars == <<master_song_list, th>>
vars == <<distVars, tourVars, insVars, webVars>>

----------------------------------------------------------------------------
(* Python values *)

None == <<>>
Some(x) == <<x>>
Val(o) == o[1]

\* Python truthiness of an optional number: None and 0 are falsy.
TruthyNum(o) == o # None /\ Val(o) # 0
\* Python truthiness of an optional string: None and "" are falsy.
TruthyStr(o) == o # None /\ Val(o) # <<>>

Abs(x) == CHOOSE r \in {IF v < 0 THEN -v ELSE v : v \in {x}} : TRUE
Min2(a, b) == IF b < a THEN b ELSE a
Min3(a, b, c) == Min2(Min2(a, b), c)

DigitChars == <<"0", "1", "2", "3", "4", "5", "6", "7", "8", "9">>
LowerChars == <<"a", "b", "d", "m">>
UpperChars == <<"A", "B", "D", "M">>

\* str.isdigit and str.isalpha on one character
isdigit(c) == \E k \in 1..Len(DigitChars) : DigitChars[k] = c
isalpha(c) == \/ \E k \in 1..Len(LowerChars) : LowerChars[k] = c
              \/ \E k \in 1..Len(UpperChars) : UpperChars[k] = c

DigitValue(c) == (CHOOSE k \in 1..Len(DigitChars) : DigitChars[k] = c) - 1

\* str.upper on one character
upper(c) ==
    IF \E k \in 1..Len(LowerChars) : LowerChars[k] = c
    THEN UpperChars[CHOOSE k \in 1..Len(LowerChars) : LowerChars[k] = c]
    ELSE c

\* ''.join(filter(str.isdigit, s)) and ''.join(filter(str.isalpha, s)).upper()
digits_of(s) == SelectSeq(s, isdigit)
letters_of(s) == [k \in 1..Len(SelectSeq(s, isalpha)) |-> upper(SelectSeq(s, isalpha)[k])]

\* int() of a string of decimal digits; int('') raises ValueError (None here)
RECURSIVE DecimalValue(_)
DecimalValue(ds) ==
    IF ds = <<>> THEN 0
    ELSE 10 * DecimalValue(SubSeq(ds, 1, Len(ds) - 1)) + DigitValue(ds[Len(ds)])

int(ds) == IF ds = <<>> THEN None ELSE Some(DecimalValue(ds))

----------------------------------------------------------------------------
(* key_distance and distance *)

wheel_distance(num1, num2) == Min2(Abs(num1 - num2), 12 - Abs(num1 - num2))

\* lines 200-217: the value returned once the try block has passed
key_distance_parsed(num1, letter1, num2, letter2) ==
    IF num1 = num2 /\ letter1 = letter2 THEN 0
    ELSE IF num1 = num2 THEN 1
    ELSE IF wheel_distance(num1, num2) = 1 /\ letter1 = letter2 THEN 1
    ELSE wheel_distance(num1, num2) + (IF letter1 = letter2 THEN 0 ELSE 1)

\* lines 188-198, then key_distance_parsed.  num1, letter1, num2, letter2 are
\* the four locals of the try block; int() raising (None) is the except branch.
key_distance(camelot1, camelot2) ==
    IF ~TruthyStr(camelot1) \/ ~TruthyStr(camelot2) THEN 6
    ELSE CHOOSE r \in
           {IF num1 = None \/ num2 = None THEN 6
            ELSE key_distance_parsed(Val(num1), letter1, Val(num2), letter2) :
              num1 \in {int(digits_of(Val(camelot1)))},
              letter1 \in {letters_of(Val(camelot1))},
              num2 \in {int(digits_of(Val(camelot2)))},
              letter2 \in {letters_of(Val(camelot2))}} : TRUE

tempo_diff1(S1, S2) ==
    IF TruthyNum(S1.tempo) /\ TruthyNum(S2.tempo)
    THEN Abs(Val(S1.tempo) - Val(S2.tempo)) ELSE 100
\* Mutant of tempo_diff2: the half-time candidate computed as the direct one.
tempo_diff2_direct(S1, S2) == tempo_diff1(S1, S2)
tempo_diff2(S1, S2) ==
    IF TruthyNum(S1.tempo) /\ TruthyNum(S2.tempo)
    THEN Abs(Val(S1.tempo) - 2 * Val(S2.tempo)) ELSE 100
\* Mutant of tempo_diff3: the double-time candidate computed as the half-time
\* one, so that only one of the two orders sees the 2:1 ratio.
tempo_diff3_half(S1, S2) == tempo_diff2(S1, S2)
tempo_diff3(S1, S2) ==
    IF TruthyNum(S1.tempo) /\ TruthyNum(S2.tempo)
    THEN Abs(2 * Val(S1.tempo) - Val(S2.tempo)) ELSE 100

\* lines 219-223, with the two arguments bound once
distance(S1, S2) ==
    CHOOSE r \in
        {Min3(tempo_diff1(a, b), tempo_diff2(a, b), tempo_diff3(a, b))
         + 4 * Abs(key_distance(a.camelot, b.camelot)) : a \in {S1}, b \in {S2}} : TRUE

----------------------------------------------------------------------------
(* Song records.  key and genre are carried by the program but never read  *)
(* by any operation modelled here; they are left out of the record.        *)

Song(title, artist, tempo, camelot) ==
    [title |-> title, artist |-> artist, tempo |-> tempo, camelot |-> camelot]

\* Input domains of the distance functions: missing, zero and present
\* tempos; missing, empty, valid, lower-case, letter-first, letterless,
\* digitless and out-of-wheel camelot strings.
DistTempos == {None, Some(0), Some(60), Some(120), Some(128)}
DistCamelots ==
    {None, Some(<<>>),
     Some(<<"8", "B">>), Some(<<"8", "A">>), Some(<<"9", "B">>),
     Some(<<"2", "B">>), Some(<<"1", "2", "A">>), Some(<<"1", "A">>),
     Some(<<"B", "8">>), Some(<<"8", "b">>), Some(<<"8">>), Some(<<"B">>),
     Some(<<"1", "4", "A">>)}
DistSongs == {Song("t", "a", t, c) : t \in DistTempos, c \in DistCamelots}

----------------------------------------------------------------------------
(* Specification DistSpec: one call of key_distance on the two songs'      *)
(* camelot codes, then one call of distance on the two songs.              *)

TourIdle ==
    /\ Song_List = <<>> /\ unvisited = {} /\ current = 0 /\ tour = <<>>
    /\ improved = FALSE /\ i = 0 /\ j = 0 /\ result = None /\ pc = "idle"
InsIdle ==
    /\ optimized_list = <<>> /\ new_song = None /\ best_position = 0
    /\ min_added_distance = None /\ ins_i = 0 /\ inserted = None
    /\ ins_pc = "idle"
WebIdle == master_song_list = <<>> /\ th = <<>>
DistIdle ==
    /\ SONG1 = None /\ SONG2 = None /\ key_result = None /\ dist_result = None
    /\ dpc = "idle"

DistInit ==
    /\ SONG1 \in DistSongs
    /\ SONG2 \in DistSongs
    /\ key_result = None
    /\ dist_result = None
    /\ dpc = "start"
    /\ TourIdle /\ InsIdle /\ WebIdle

CallKeyDistance ==
    /\ dpc = "start"
    /\ key_result' = Some(key_distance(SONG1.camelot, SONG2.camelot))
    /\ dpc' = "key_done"
    /\ UNCHANGED <<SONG1, SONG2, dist_result, tourVars, insVars, webVars>>

CallDistance ==
    /\ dpc = "key_done"
    /\ dist_result' = Some(distance(SONG1, SONG2))
    /\ dpc' = "done"
    /\ UNCHANGED <<SONG1, SONG2, key_result, tourVars, insVars, webVars>>

DistNext == CallKeyDistance \/ CallDistance

DistSpec == DistInit /\ [][DistNext]_vars

----------------------------------------------------------------------------
(* Claims about key_distance and distance (DistSpec) *)

\* A camelot string of the documented form ^([1-9]|1[0-2])[AB]$.
ValidCamelot(c) ==
    /\ TruthyStr(c)
    /\ Len(Val(c)) \in {2, 3}
    /\ \A k \in 1..(Len(Val(c)) - 1) : isdigit(Val(c)[k])
    /\ Val(c)[1] # "0"
    /\ Val(c)[Len(Val(c))] \in {"A", "B"}
    /\ DecimalValue(digits_of(Val(c))) \in 1..12

\* A string that splits into a (number, letter) pair: at least one digit and
\* at least one letter.
SplitsIntoNumberAndLetter(c) ==
    TruthyStr(c) /\ digits_of(Val(c)) # <<>> /\ letters_of(Val(c)) # <<>>

\* The tempo contribution as the claims state it.
ClaimedTempoTerm(S1, S2) ==
    IF S1.tempo = None \/ S2.tempo = None THEN 100
    ELSE IF Val(S1.tempo) = 0 \/ Val(S2.tempo) = 0 THEN 100
    ELSE Min3(Abs(Val(S1.tempo) - Val(S2.tempo)),
              Abs(Val(S1.tempo) - 2 * Val(S2.tempo)),
              Abs(2 * Val(S1.tempo) - Val(S2.tempo)))

\* C5: distance and key_distance are symmetric: the value returned for
\* (SONG1, SONG2) is the value of the call with the arguments exchanged, for
\* every pair of songs, missing or zero tempos and missing or unparseable
\* camelot codes included.
C5_Symmetric ==
    /\ dpc \in {"key_done", "done"}
          => key_result = Some(key_distance(SONG2.camelot, SONG1.camelot))
    /\ dpc = "done" => dist_result = Some(distance(SONG2, SONG1))

C5_Witness ==
    /\ dpc = "done"
    /\ SONG1.tempo = Some(120) /\ SONG2.tempo = Some(60)
    /\ SONG1.camelot = Some(<<"B", "8">>) /\ SONG2.camelot = Some(<<"9", "B">>)
    /\ dist_result = Some(4)

\* C6 (as claimed): key_distance returns exactly 6 whenever either argument
\* is None, empty, or does not split into a (number, letter) pair.
C6_SixWhenUnparseable ==
    (/\ dpc \in {"key_done", "done"}
     /\ \/ ~SplitsIntoNumberAndLetter(SONG1.camelot)
        \/ ~SplitsIntoNumberAndLetter(SONG2.camelot))
    => key_result = Some(6)

\* C7 (as claimed): distance = T + 4 * key_distance.
C7_DistanceFormulaOriginal ==
    dpc = "done"
    => dist_result = Some(ClaimedTempoTerm(SONG1, SONG2)
                          + 4 * key_distance(SONG1.camelot, SONG2.camelot))

\* C7 (amended): distance = T + 4 * |key_distance|, with T = 100 if either
\* tempo is missing or zero and the minimum of the direct, half-time and
\* double-time differences otherwise; for two valid camelot codes this is
\* T + 4 * key_distance; two songs with the same valid code and tempos in a
\* 2:1 ratio are at distance 0, and so is a song with a non-zero tempo and a
\* valid code from itself.
C7_DistanceFormula ==
    dpc = "done" =>
    /\ dist_result = Some(ClaimedTempoTerm(SONG1, SONG2)
                          + 4 * Abs(key_distance(SONG1.camelot, SONG2.camelot)))
    /\ (ValidCamelot(SONG1.camelot) /\ ValidCamelot(SONG2.camelot))
          => dist_result = Some(ClaimedTempoTerm(SONG1, SONG2)
                                + 4 * key_distance(SONG1.camelot, SONG2.camelot))
    /\ (/\ ValidCamelot(SONG1.camelot) /\ SONG1.camelot = SONG2.camelot
        /\ TruthyNum(SONG1.tempo) /\ TruthyNum(SONG2.tempo)
        /\ \/ Val(SONG1.tempo) = 2 * Val(SONG2.tempo)
           \/ Val(SONG2.tempo) = 2 * Val(SONG1.tempo)
           \/ SONG1 = SONG2)
          => dist_result = Some(0)

C7_Witness ==
    /\ dpc = "done"
    /\ SONG1.tempo = Some(120) /\ SONG2.tempo = Some(60)
    /\ SONG1.camelot = Some(<<"8", "B">>) /\ SONG2.camelot = Some(<<"8", "B">>)
    /\ dist_result = Some(0)

----------------------------------------------------------------------------
(* make_End_list(Song_List): nearest-neighbour construction, then 2-opt.   *)

\* Longest input list of make_End_list.
MaxSongs == 5

\* The songs the input lists are drawn from (repetitions allowed): a missing
\* tempo, a missing camelot code, equal and adjacent keys.
TourPool ==
    {Song("a", "x", None, Some(<<"8", "B">>)),
     Song("b", "x", Some(140), Some(<<"9", "B">>)),
     Song("c", "x", Some(124), Some(<<"8", "B">>)),
     Song("d", "x", Some(124), None)}

SongLists(pool, n) == UNION {[1..m -> pool] : m \in 0..n}

\* Python's t[k] for a 0-based index k.
At(t, k) == t[k + 1]

\* dict_to_songinfo: a SongInfo built from the dict's fields.
dict_to_songinfo(song_dict) ==
    Song(song_dict.title, song_dict.artist, song_dict.tempo, song_dict.camelot)

song_objects == [k \in 1..Len(Song_List) |-> dict_to_songinfo(Song_List[k])]

\* min(iterable, key=f): the key of every element is computed once, and the
\* first element met whose key is the smallest is returned.  keyed holds the
\* pairs <<element, key>>.  The set iterated here holds small non-negative
\* ints built from range(n) and only ever shrinks, so CPython iterates it in
\* ascending order: the first minimum met is the lowest index.
min_by_key_last(keyed) ==
    CHOOSE n \in UNION {{x[1] : x \in {y \in K : \A o \in K :
                                        \/ y[2] < o[2]
                                        \/ y[2] = o[2] /\ y[1] >= o[1]}} : K \in {keyed}} : TRUE
min_by_key(keyed) ==
    CHOOSE n \in UNION {{x[1] : x \in {y \in K : \A o \in K :
                                        \/ y[2] < o[2]
                                        \/ y[2] = o[2] /\ y[1] <= o[1]}} : K \in {keyed}} : TRUE

\* min(unvisited, key=lambda i: distance(song_objects[current], song_objects[i]))
nearest(objs, cur, unv) ==
    min_by_key({<<m, distance(At(objs, cur), At(objs, m))>> : m \in unv})

\* range(1, len(tour) - 2): the last value of i the outer loop takes.
last_i_short(n) == n - 4
last_i(n) == n - 3

\* The two edges a reversal of tour[p:q] removes, and the two it adds.
current_dist(objs, t, p, q) ==
    distance(At(objs, At(t, p - 1)), At(objs, At(t, p)))
    + distance(At(objs, At(t, q - 1)), At(objs, At(t, q % Len(t))))
new_dist(objs, t, p, q) ==
    distance(At(objs, At(t, p - 1)), At(objs, At(t, q - 1)))
    + distance(At(objs, At(t, p)), At(objs, At(t, q % Len(t))))

\* if new_dist < current_dist
improves_or_ties(objs, t, p, q) == new_dist(objs, t, p, q) <= current_dist(objs, t, p, q)
improves(objs, t, p, q) == new_dist(objs, t, p, q) < current_dist(objs, t, p, q)

\* tour[p:q] = reversed(tour[p:q]): positions p .. q-1 (0-based) reversed.
reverse_through_q(t, p, q) ==
    [k \in 1..Len(t) |->
        IF p + 1 <= k /\ k <= q + 1 /\ q + 1 <= Len(t) THEN t[p + q + 2 - k]
        ELSE IF p + 1 <= k /\ k <= q THEN t[p + q + 1 - k] ELSE t[k]]
reverse_shifted(t, p, q) ==
    [k \in 1..Len(t) |->
        IF p + 1 <= k /\ k <= q THEN t[IF p + q + 2 - k <= q THEN p + q + 2 - k ELSE q]
        ELSE t[k]]
reverse_segment(t, p, q) ==
    [k \in 1..Len(t) |-> IF p + 1 <= k /\ k <= q THEN t[p + q + 1 - k] ELSE t[k]]

TourInit ==
    /\ Song_List = <<>>
    /\ unvisited = {} /\ current = 0 /\ tour = <<>>
    /\ improved = FALSE /\ i = 0 /\ j = 0 /\ result = None
    /\ pc = "call"
    /\ DistIdle /\ InsIdle /\ WebIdle

\* The caller passes a list of song dicts.
CallMakeEndList ==
    /\ pc = "call"
    /\ Song_List' \in SongLists(TourPool, MaxSongs)
    /\ pc' = "start"
    /\ UNCHANGED <<unvisited, current, tour, improved, i, j, result>>
    /\ UNCHANGED <<distVars, insVars, webVars>>

\* lines 231-232: the empty and the one-song list are returned as they are
ReturnShort ==
    /\ pc = "start"
    /\ Len(Song_List) <= 1
    /\ result' = Some(Song_List)
    /\ pc' = "done"
    /\ UNCHANGED <<Song_List, unvisited, current, tour, improved, i, j>>
    /\ UNCHANGED <<distVars, insVars, webVars>>

\* lines 249-252
StartTour ==
    /\ pc = "start"
    /\ Len(Song_List) > 1
    /\ unvisited' = (0..(Len(Song_List) - 1)) \ {0}
    /\ current' = 0
    /\ tour' = <<0>>
    /\ pc' = "nn"
    /\ UNCHANGED <<Song_List, improved, i, j, result>>
    /\ UNCHANGED <<distVars, insVars, webVars>>

\* lines 254-258: one iteration of `while unvisited`
VisitNearest ==
    /\ pc = "nn"
    /\ unvisited # {}
    /\ current' = nearest(song_objects, current, unvisited)
    /\ tour' = Append(tour, current')
    /\ unvisited' = unvisited \ {current'}
    /\ UNCHANGED <<Song_List, improved, i, j, result, pc>>
    /\ UNCHANGED <<distVars, insVars, webVars>>

\* line 254 (loop exit) and line 261
StartTwoOpt ==
    /\ pc = "nn"
    /\ unvisited = {}
    /\ improved' = TRUE
    /\ pc' = "while"
    /\ UNCHANGED <<Song_List, unvisited, current, tour, i, j, result>>
    /\ UNCHANGED <<distVars, insVars, webVars>>

\* lines 262-264: `while improved`, improved = False, the first value of i
BeginScan ==
    /\ pc = "while"
    /\ improved
    /\ improved' = FALSE
    /\ i' = 1
    /\ pc' = "for_i"
    /\ UNCHANGED <<Song_List, unvisited, current, tour, j, result>>
    /\ UNCHANGED <<distVars, insVars, webVars>>

\* line 264/265: the outer loop takes i and starts the inner loop at i + 1
EnterInner ==
    /\ pc = "for_i"
    /\ i <= last_i(Len(tour))
    /\ j' = i + 1
    /\ pc' = "for_j"
    /\ UNCHANGED <<Song_List, unvisited, current, tour, improved, i, result>>
    /\ UNCHANGED <<distVars, insVars, webVars>>

\* line 264: range(1, len(tour) - 2) is exhausted, back to `while improved`
ScanExhausted ==
    /\ pc = "for_i"
    /\ i > last_i(Len(tour))
    /\ pc' = "while"
    /\ UNCHANGED <<Song_List, unvisited, current, tour, improved, i, j, result>>
    /\ UNCHANGED <<distVars, insVars, webVars>>

\* lines 266-267: adjacent positions are skipped
SkipAdjacent ==
    /\ pc = "for_j"
    /\ j < Len(tour)
    /\ j - i = 1
    /\ j' = j + 1
    /\ UNCHANGED <<Song_List, unvisited, current, tour, improved, i, result, pc>>
    /\ UNCHANGED <<distVars, insVars, webVars>>

\* lines 270-277: the move does not improve, next j
KeepSegment ==
    /\ pc = "for_j"
    /\ j < Len(tour)
    /\ j - i # 1
    /\ ~improves(song_objects, tour, i, j)
    /\ j' = j + 1
    /\ UNCHANGED <<Song_List, unvisited, current, tour, improved, i, result, pc>>
    /\ UNCHANGED <<distVars, insVars, webVars>>

\* lines 277-281: the move improves: reverse, improved = True, break
ReverseSegment ==
    /\ pc = "for_j"
    /\ j < Len(tour)
    /\ j - i # 1
    /\ improves(song_objects, tour, i, j)
    /\ tour' = reverse_segment(tour, i, j)
    /\ improved' = TRUE
    /\ pc' = "after_j"
    /\ UNCHANGED <<Song_List, unvisited, current, i, j, result>>
    /\ UNCHANGED <<distVars, insVars, webVars>>

\* line 265: range(i + 1, len(tour)) is exhausted
InnerExhausted ==
    /\ pc = "for_j"
    /\ j >= Len(tour)
    /\ pc' = "after_j"
    /\ UNCHANGED <<Song_List, unvisited, current, tour, improved, i, j, result>>
    /\ UNCHANGED <<distVars, insVars, webVars>>

\* lines 282-283: `if improved: break`, back to `while improved`
BreakOuter ==
    /\ pc = "after_j"
    /\ improved
    /\ pc' = "while"
    /\ UNCHANGED <<Song_List, unvisited, current, tour, improved, i, j, result>>
    /\ UNCHANGED <<distVars, insVars, webVars>>

\* line 264: next i
NextOuter ==
    /\ pc = "after_j"
    /\ ~improved
    /\ i' = i + 1
    /\ pc' = "for_i"
    /\ UNCHANGED <<Song_List, unvisited, current, tour, improved, j, result>>
    /\ UNCHANGED <<distVars, insVars, webVars>>

\* lines 262 (loop exit) and 286
ReturnOrder ==
    /\ pc = "while"
    /\ ~improved
    /\ result' = Some([k \in 1..Len(tour) |-> At(Song_List, tour[k])])
    /\ pc' = "done"
    /\ UNCHANGED <<Song_List, unvisited, current, tour, improved, i, j>>
    /\ UNCHANGED <<distVars, insVars, webVars>>

TourNext ==
    \/ CallMakeEndList
    \/ ReturnShort \/ StartTour \/ VisitNearest \/ StartTwoOpt
    \/ BeginScan \/ EnterInner \/ ScanExhausted
    \/ SkipAdjacent \/ KeepSegment \/ ReverseSegment \/ InnerExhausted
    \/ BreakOuter \/ NextOuter \/ ReturnOrder

TourSpec == TourInit /\ [][TourNext]_vars

\* The interpreter runs the function to its end: a step that is enabled is
\* eventually taken.
TourFairSpec == TourSpec /\ WF_vars(TourNext)

----------------------------------------------------------------------------
(* Claims about make_End_list (TourSpec, TourFairSpec) *)

NumSongs == Len(Song_List)
TwoOptPhases == {"while", "for_i", "for_j", "after_j"}
ConstructionDone == pc = "nn" /\ unvisited = {}

\* The distance between the songs at two input indices.
IndexDistance(a, b) == distance(At(song_objects, a), At(song_objects, b))

\* t is what nearest-neighbour construction from index 0 produces so far:
\* every entry after the first is, among the indices not used before it, one
\* at the smallest distance from its predecessor, and the lowest such index.
IsNearestNeighbourPrefix(t) ==
    /\ Len(t) >= 1
    /\ t[1] = 0
    /\ \A k \in 1..(Len(t) - 1) :
          /\ t[k + 1] \in (0..(NumSongs - 1)) \ {t[x] : x \in 1..k}
          /\ \A m \in (0..(NumSongs - 1)) \ {t[x] : x \in 1..k} :
                \/ IndexDistance(t[k], t[k + 1]) < IndexDistance(t[k], m)
                \/ /\ IndexDistance(t[k], t[k + 1]) = IndexDistance(t[k], m)
                   /\ t[k + 1] <= m

\* C1: once the tour is complete it is a permutation of 0..N-1, in every
\* state of the 2-opt phase, and the returned list has length N and holds
\* the input records in tour order: none duplicated, none omitted.
C1_Permutation ==
    /\ (NumSongs >= 2 /\ (ConstructionDone \/ pc \in TwoOptPhases \/ pc = "done"))
          => /\ Len(tour) = NumSongs
             /\ {tour[k] : k \in 1..Len(tour)} = 0..(NumSongs - 1)
             /\ \A a, b \in 1..Len(tour) : tour[a] = tour[b] => a = b
    /\ (NumSongs >= 2 /\ pc = "done")
          => /\ Len(Val(result)) = NumSongs
             /\ \A k \in 1..NumSongs : Val(result)[k] = At(Song_List, tour[k])

C1_Witness ==
    /\ pc = "done"
    /\ NumSongs = 5
    /\ \E k \in 1..Len(tour) : tour[k] # k - 1
    /\ ~IsNearestNeighbourPrefix(tour)

\* C2: the 2-opt loop finishes: make_End_list eventually returns.
C2_Terminates == <>(pc = "done")

C2_Witness ==
    /\ pc = "done"
    /\ NumSongs >= 4
    /\ result # None
    /\ ~IsNearestNeighbourPrefix(tour)

\* C3: in the returned order T no scanned 2-opt move improves: for all
\* positions p in [1, N-2) and q in [p+2, N),
\* d(T[p-1], T[q-1]) + d(T[p], T[q mod N]) >= d(T[p-1], T[p]) + d(T[q-1], T[q mod N]).
C3_LocallyOptimal ==
    (pc = "done" /\ NumSongs >= 2) =>
    \A p \in 1..(NumSongs - 3) : \A q \in (p + 2)..(NumSongs - 1) :
        distance(At(Val(result), p - 1), At(Val(result), q - 1))
        + distance(At(Val(result), p), At(Val(result), q % NumSongs))
        >= distance(At(Val(result), p - 1), At(Val(result), p))
           + distance(At(Val(result), q - 1), At(Val(result), q % NumSongs))

C3_Witness ==
    /\ pc = "done"
    /\ NumSongs = 5
    /\ ~IsNearestNeighbourPrefix(tour)
    /\ \E p \in 1..(NumSongs - 3) : \E q \in (p + 2)..(NumSongs - 1) :
          distance(At(Val(result), p - 1), At(Val(result), q - 1))
          + distance(At(Val(result), p), At(Val(result), q % NumSongs))
          > distance(At(Val(result), p - 1), At(Val(result), p))
            + distance(At(Val(result), q - 1), At(Val(result), q % NumSongs))

\* C8: during construction the tour starts at index 0 and every appended
\* index is the unvisited index nearest to the current song, the lowest one
\* when several are equally near; unvisited is exactly what the tour lacks
\* and current is its last entry.
C8_NearestNeighbour ==
    pc = "nn" =>
    /\ IsNearestNeighbourPrefix(tour)
    /\ unvisited = (0..(NumSongs - 1)) \ {tour[k] : k \in 1..Len(tour)}
    /\ current = tour[Len(tour)]

\* A complete construction in which a tie between two unvisited indices was
\* decided.
C8_Witness ==
    /\ ConstructionDone
    /\ NumSongs >= 3
    /\ \E k \in 1..(Len(tour) - 1) :
          \E m \in (0..(NumSongs - 1)) \ {tour[x] : x \in 1..(k + 1)} :
              IndexDistance(tour[k], m) = IndexDistance(tour[k], tour[k + 1])

\* C9: the 2-opt phase never moves the two ends of the tour: tour[0] is 0
\* and tour[N-1] stays the index the construction chose last; the returned
\* order begins with the first input song; for N <= 3 the tour is not
\* changed at all.
C9_EndsFixed ==
    [][ /\ (pc' \in TwoOptPhases \/ pc' = "done") /\ NumSongs >= 2
            => At(tour', 0) = 0
        /\ (ConstructionDone \/ pc \in TwoOptPhases)
            => /\ At(tour', 0) = At(tour, 0)
               /\ At(tour', Len(tour) - 1) = At(tour, Len(tour) - 1)
               /\ NumSongs <= 3 => tour' = tour
        /\ (pc' = "done" /\ NumSongs >= 2)
            => Val(result')[1] = Song_List[1]
      ]_vars

\* A segment ending right before the last position has just been reversed.
C9_Witness ==
    /\ pc = "after_j"
    /\ improved
    /\ j = Len(tour) - 1
    /\ At(tour, 0) = 0

----------------------------------------------------------------------------
(* add_song_after(optimized_list, new_song)                                *)

\* Longest playlist passed to add_song_after.
MaxPlaylist == 3

\* The songs playlists and new songs are drawn from (repetitions allowed).
InsPool ==
    {Song("a", "x", Some(128), Some(<<"5", "A">>)),
     Song("b", "x", Some(130), Some(<<"6", "A">>)),
     Song("c", "x", Some(126), Some(<<"4", "A">>)),
     Song("d", "x", None, Some(<<"1", "1", "B">>)),
     Song("e", "x", Some(64), None)}

playlist_objects == [k \in 1..Len(optimized_list) |-> dict_to_songinfo(optimized_list[k])]
new_song_obj == dict_to_songinfo(new_song)

\* lines 320-332: the cost added by inserting at 0-based position p
added_distance(objs, obj, p) ==
    IF p = 0 THEN distance(obj, At(objs, 0))
    ELSE IF p = Len(objs) THEN distance(At(objs, Len(objs) - 1), obj)
    ELSE (distance(At(objs, p - 1), obj) + distance(obj, At(objs, p)))
         - distance(At(objs, p - 1), At(objs, p))

\* line 334: added_distance < min_added_distance; None stands for
\* float('inf'), which every distance is below.
below_or_equal(added, min_added) ==
    IF min_added = None THEN TRUE ELSE added <= Val(min_added)
below(added, min_added) ==
    IF min_added = None THEN TRUE ELSE added < Val(min_added)

\* line 339: optimized_list[:p] + [new_song] + optimized_list[p:]
spliced(lst, song, p) ==
    SubSeq(lst, 1, p) \o <<song>> \o SubSeq(lst, p + 1, Len(lst))

InsInit ==
    /\ optimized_list = <<>> /\ new_song = None /\ best_position = 0
    /\ min_added_distance = None /\ ins_i = 0 /\ inserted = None
    /\ ins_pc = "call"
    /\ DistIdle /\ TourIdle /\ WebIdle

\* The caller passes an ordered playlist and a new song.
CallAddSongAfter ==
    /\ ins_pc = "call"
    /\ optimized_list' \in SongLists(InsPool, MaxPlaylist)
    /\ new_song' \in InsPool
    /\ ins_pc' = "start"
    /\ UNCHANGED <<best_position, min_added_distance, ins_i, inserted>>
    /\ UNCHANGED <<distVars, tourVars, webVars>>

\* lines 294-295
ReturnOnlySong ==
    /\ ins_pc = "start"
    /\ optimized_list = <<>>
    /\ inserted' = Some(<<new_song>>)
    /\ ins_pc' = "done"
    /\ UNCHANGED <<optimized_list, new_song, best_position, min_added_distance, ins_i>>
    /\ UNCHANGED <<distVars, tourVars, webVars>>

\* lines 297-298
ReturnAppended ==
    /\ ins_pc = "start"
    /\ Len(optimized_list) = 1
    /\ inserted' = Some(optimized_list \o <<new_song>>)
    /\ ins_pc' = "done"
    /\ UNCHANGED <<optimized_list, new_song, best_position, min_added_distance, ins_i>>
    /\ UNCHANGED <<distVars, tourVars, webVars>>

\* lines 315-319: best_position = 0, min_added_distance = inf, first i
StartInsertScan ==
    /\ ins_pc = "start"
    /\ Len(optimized_list) >= 2
    /\ best_position' = 0
    /\ min_added_distance' = None
    /\ ins_i' = 0
    /\ ins_pc' = "for"
    /\ UNCHANGED <<optimized_list, new_song, inserted>>
    /\ UNCHANGED <<distVars, tourVars, webVars>>

\* lines 319-336: position i adds less than the best so far
TakePosition ==
    /\ ins_pc = "for"
    /\ ins_i <= Len(optimized_list)
    /\ below(added_distance(playlist_objects, new_song_obj, ins_i), min_added_distance)
    /\ min_added_distance' = Some(added_distance(playlist_objects, new_song_obj, ins_i))
    /\ best_position' = ins_i
    /\ ins_i' = ins_i + 1
    /\ UNCHANGED <<optimized_list, new_song, inserted, ins_pc>>
    /\ UNCHANGED <<distVars, tourVars, webVars>>

\* lines 319-334: position i does not add less
PassPosition ==
    /\ ins_pc = "for"
    /\ ins_i <= Len(optimized_list)
    /\ ~below(added_distance(playlist_objects, new_song_obj, ins_i), min_added_distance)
    /\ ins_i' = ins_i + 1
    /\ UNCHANGED <<optimized_list, new_song, best_position, min_added_distance,
                   inserted, ins_pc>>
    /\ UNCHANGED <<distVars, tourVars, webVars>>

\* lines 339-340
ReturnInserted ==
    /\ ins_pc = "for"
    /\ ins_i > Len(optimized_list)
    /\ inserted' = Some(spliced(optimized_list, new_song, best_position))
    /\ ins_pc' = "done"
    /\ UNCHANGED <<optimized_list, new_song, best_position, min_added_distance, ins_i>>
    /\ UNCHANGED <<distVars, tourVars, webVars>>

InsNext ==
    \/ CallAddSongAfter \/ ReturnOnlySong \/ ReturnAppended \/ StartInsertScan
    \/ TakePosition \/ PassPosition \/ ReturnInserted

InsSpec == InsInit /\ [][InsNext]_vars

----------------------------------------------------------------------------
(* Claim about add_song_after (InsSpec) *)

\* The added cost of inserting song at 0-based position q of lst, as claimed.
ClaimedAddedCost(lst, song, q) ==
    IF q = 0 THEN distance(song, lst[1])
    ELSE IF q = Len(lst) THEN distance(lst[Len(lst)], song)
    ELSE distance(lst[q], song) + distance(song, lst[q + 1]) - distance(lst[q], lst[q + 1])

\* C4: for a list of length n >= 2 the returned list has length n + 1 and is
\* the input with new_song spliced in at position p (the input's songs before
\* and after it in their order), p being the lowest index in [0, n] of
\* minimal added cost; the input list and the new song are not modified.
C4_InsertAtFirstMinimum ==
    [][ /\ (ins_pc' = "done" /\ Len(optimized_list') >= 2)
            => /\ Len(Val(inserted')) = Len(optimized_list') + 1
               /\ best_position' \in 0..Len(optimized_list')
               /\ Val(inserted')[best_position' + 1] = new_song'
               /\ \A k \in 1..best_position' :
                      Val(inserted')[k] = optimized_list'[k]
               /\ \A k \in (best_position' + 1)..Len(optimized_list') :
                      Val(inserted')[k + 1] = optimized_list'[k]
               /\ \A q \in 0..Len(optimized_list') :
                      /\ ClaimedAddedCost(optimized_list', new_song', best_position')
                            <= ClaimedAddedCost(optimized_list', new_song', q)
                      /\ q < best_position'
                            => ClaimedAddedCost(optimized_list', new_song', best_position')
                                  < ClaimedAddedCost(optimized_list', new_song', q)
        /\ ins_pc # "call"
            => optimized_list' = optimized_list /\ new_song' = new_song
      ]_vars

\* A returned insertion in the middle of a three-song list where a later
\* position ties with the chosen one.
C4_Witness ==
    /\ ins_pc = "done"
    /\ Len(optimized_list) = 3
    /\ best_position \in 1..2
    /\ \E q \in (best_position + 1)..3 :
          ClaimedAddedCost(optimized_list, new_song, q)
          = ClaimedAddedCost(optimized_list, new_song, best_position)
    /\ Val(inserted) = spliced(optimized_list, new_song, best_position)

----------------------------------------------------------------------------
(* Web layer: /add, /upload_txt and DELETE /songs/<index> handled by       *)
(* concurrent request threads over the module-level master_song_list.      *)
(* The JSON bodies of the responses (results, skipped) are not modelled:    *)
(* nothing reads them back.                                                 *)

\* Request threads of the server.
NumThreads == 2
\* Most songs in one /add body or one uploaded file.
MaxBatch == 2
\* No new request is accepted once master_song_list holds this many songs.
MaxMaster == 2

Threads == 1..NumThreads

\* What a request names: a title and an artist, either possibly empty.
Entry(title, artist) == [title |-> title, artist |-> artist]
RequestEntries == {Entry("One", "X"), Entry("Two", "X"), Entry("", "X")}
Batches == UNION {[1..m -> RequestEntries] : m \in 1..MaxBatch}

\* get_song_bpm_and_key: the provider's answer, None (not found, or any
\* exception) or the song it knows under that title and artist.
FetchAnswers(entry) ==
    {None,
     Some(Song(entry.title, entry.artist, Some(120), Some(<<"8", "B">>)))}

\* SongInfo.to_dict
to_dict(song_info) ==
    Song(song_info.title, song_info.artist, song_info.tempo, song_info.camelot)

\* any(s['title'] == song_dict['title'] and s['artist'] == song_dict['artist']
\*     for s in master_song_list)
already_there(lst, song_dict) ==
    \E k \in 1..Len(lst) :
        lst[k].title = song_dict.title /\ lst[k].artist = song_dict.artist

\* list.pop(index) for 0 <= index < len
popped(lst, index) == SubSeq(lst, 1, index) \o SubSeq(lst, index + 2, Len(lst))

IdleThread == [pc |-> "idle", queue |-> <<>>, song_dict |-> None, index |-> 0]

WebInit ==
    /\ master_song_list = <<>>
    /\ th = [t \in Threads |-> IdleThread]
    /\ DistIdle /\ TourIdle /\ InsIdle

\* line 98: POST /add with a JSON list of songs
AddRequest(t) ==
    /\ th[t].pc = "idle"
    /\ Len(master_song_list) < MaxMaster
    /\ \E songs_input \in Batches :
          th' = [th EXCEPT ![t] = [IdleThread EXCEPT !.pc = "add_for", !.queue = songs_input]]
    /\ UNCHANGED <<master_song_list, distVars, tourVars, insVars>>

\* lines 101-105: an entry without title or artist is passed over
AddSkipBlank(t) ==
    /\ th[t].pc = "add_for"
    /\ th[t].queue # <<>>
    /\ ~(Head(th[t].queue).title # "" /\ Head(th[t].queue).artist # "")
    /\ th' = [th EXCEPT ![t].queue = Tail(th[t].queue)]
    /\ UNCHANGED <<master_song_list, distVars, tourVars, insVars>>

\* lines 105-108: the song is fetched; not found: next entry
AddFetch(t) ==
    /\ th[t].pc = "add_for"
    /\ th[t].queue # <<>>
    /\ Head(th[t].queue).title # "" /\ Head(th[t].queue).artist # ""
    /\ \E song_info \in FetchAnswers(Head(th[t].queue)) :
          IF song_info = None
          THEN th' = [th EXCEPT ![t].queue = Tail(th[t].queue)]
          ELSE th' = [th EXCEPT ![t].queue = Tail(th[t].queue),
                                ![t].song_dict = Some(to_dict(Val(song_info))),
                                ![t].pc = "add_check"]
    /\ UNCHANGED <<master_song_list, distVars, tourVars, insVars>>

\* line 111: the duplicate check
AddCheck(t) ==
    /\ th[t].pc = "add_check"
    /\ IF already_there(master_song_list, Val(th[t].song_dict))
       THEN th' = [th EXCEPT ![t].pc = "add_for", ![t].song_dict = None]
       ELSE th' = [th EXCEPT ![t].pc = "add_append"]
    /\ UNCHANGED <<master_song_list, distVars, tourVars, insVars>>

\* line 112: master_song_list.append(song_dict)
AddAppend(t) ==
    /\ th[t].pc = "add_append"
    /\ master_song_list' = Append(master_song_list, Val(th[t].song_dict))
    /\ th' = [th EXCEPT ![t].pc = "add_for", ![t].song_dict = None]
    /\ UNCHANGED <<distVars, tourVars, insVars>>

\* line 116: the loop is over, the response is sent
AddReturn(t) ==
    /\ th[t].pc = "add_for"
    /\ th[t].queue = <<>>
    /\ th' = [th EXCEPT ![t] = IdleThread]
    /\ UNCHANGED <<master_song_list, distVars, tourVars, insVars>>

\* lines 122-149: POST /upload_txt; the lines of the file that hold a title
\* and an artist become songs_to_add (a request without a .txt file is
\* answered 400 and changes nothing)
UploadRequest(t) ==
    /\ th[t].pc = "idle"
    /\ Len(master_song_list) < MaxMaster
    /\ \E lines \in Batches :
          th' = [th EXCEPT ![t] =
                    [IdleThread EXCEPT
                        !.pc = "upload_for",
                        !.queue = SelectSeq(lines,
                                     LAMBDA e : e.title # "" /\ e.artist # "")]]
    /\ UNCHANGED <<master_song_list, distVars, tourVars, insVars>>

\* lines 154-159, 166-168: the song is fetched; not found: skipped
UploadFetch(t) ==
    /\ th[t].pc = "upload_for"
    /\ th[t].queue # <<>>
    /\ \E song_info \in FetchAnswers(Head(th[t].queue)) :
          IF song_info = None
          THEN th' = [th EXCEPT ![t].queue = Tail(th[t].queue)]
          ELSE th' = [th EXCEPT ![t].queue = Tail(th[t].queue),
                                ![t].song_dict = Some(to_dict(Val(song_info))),
                                ![t].pc = "upload_check"]
    /\ UNCHANGED <<master_song_list, distVars, tourVars, insVars>>

\* line 163: the duplicate check
UploadCheck(t) ==
    /\ th[t].pc = "upload_check"
    /\ IF already_there(master_song_list, Val(th[t].song_dict))
       THEN th' = [th EXCEPT ![t].pc = "upload_for", ![t].song_dict = None]
       ELSE th' = [th EXCEPT ![t].pc = "upload_append"]
    /\ UNCHANGED <<master_song_list, distVars, tourVars, insVars>>

\* line 164: master_song_list.append(song_dict)
UploadAppend(t) ==
    /\ th[t].pc = "upload_append"
    /\ master_song_list' = Append(master_song_list, Val(th[t].song_dict))
    /\ th' = [th EXCEPT ![t].pc = "upload_for", ![t].song_dict = None]
    /\ UNCHANGED <<distVars, tourVars, insVars>>

\* lines 170-177
UploadReturn(t) ==
    /\ th[t].pc = "upload_for"
    /\ th[t].queue = <<>>
    /\ th' = [th EXCEPT ![t] = IdleThread]
    /\ UNCHANGED <<master_song_list, distVars, tourVars, insVars>>

\* line 350: DELETE /songs/<index>
DeleteRequest(t) ==
    /\ th[t].pc = "idle"
    /\ \E index \in 0..MaxMaster :
          th' = [th EXCEPT ![t] = [IdleThread EXCEPT !.pc = "delete_check", !.index = index]]
    /\ UNCHANGED <<master_song_list, distVars, tourVars, insVars>>

\* lines 353, 356-357: the range check; out of range is answered 400
DeleteCheck(t) ==
    /\ th[t].pc = "delete_check"
    /\ IF 0 <= th[t].index /\ th[t].index < Len(master_song_list)
       THEN th' = [th EXCEPT ![t].pc = "delete_pop"]
       ELSE th' = [th EXCEPT ![t] = IdleThread]
    /\ UNCHANGED <<master_song_list, distVars, tourVars, insVars>>

\* lines 354-355, 358-359: pop(index); an IndexError (the list shrank since
\* the check) is caught and answered 500
DeletePop(t) ==
    /\ th[t].pc = "delete_pop"
    /\ IF th[t].index < Len(master_song_list)
       THEN master_song_list' = popped(master_song_list, th[t].index)
       ELSE master_song_list' = master_song_list
    /\ th' = [th EXCEPT ![t] = IdleThread]
    /\ UNCHANGED <<distVars, tourVars, insVars>>

WebNext ==
    \E t \in Threads :
        \/ AddRequest(t) \/ AddSkipBlank(t) \/ AddFetch(t) \/ AddCheck(t)
        \/ AddAppend(t) \/ AddReturn(t)
        \/ UploadRequest(t) \/ UploadFetch(t) \/ UploadCheck(t)
        \/ UploadAppend(t) \/ UploadReturn(t)
        \/ DeleteRequest(t) \/ DeleteCheck(t) \/ DeletePop(t)

WebSpec == WebInit /\ [][WebNext]_vars

----------------------------------------------------------------------------
(* Claim about the web layer (WebSpec) *)

\* C10 (as claimed): in every reachable state master_song_list holds no two
\* entries with the same title and the same artist.
C10_NoDuplicateEntries ==
    \A a, b \in 1..Len(master_song_list) :
        (/\ master_song_list[a].title = master_song_list[b].title
         /\ master_song_list[a].artist = master_song_list[b].artist) => a = b

====
